---- MODULE Spec2Model ----
(***************************************************************************)
(* Listing lifecycle and deal-signal engine of deal-alert:                 *)
(*   scripts/db.py            the SQLite store and the derived signals     *)
(*   scripts/build_alerts.py  scoring, the enrichment run, the ranking     *)
(*                                                                         *)
(* Conventions of the model                                                *)
(*   - a timestamp is a whole number of days; a run's `now` and the wall   *)
(*     clock read inside get_listing_history are kept apart as `now` and   *)
(*     `wall`;                                                             *)
(*   - a text is a sequence of one-character strings, the absent text and  *)
(*     the empty text are both << >> (the code reads them with `not val`); *)
(*   - Python's None for a number is the definition None;                  *)
(*   - a float is an exact fraction <<n, d>>, d > 0, in lowest terms; a    *)
(*     value rounded to 4 decimals is carried as its numerator over 10000  *)
(*     and a score rounded to 2 decimals as its numerator over 100;        *)
(*   - sha1 is taken to be injective, so a digest is the text it hashes.   *)
(***************************************************************************)
EXTENDS Integers, Sequences, FiniteSets, TLC

VARIABLES
    listings_current,   \* table listings_current: listing_id -> row
    listing_events,     \* table listing_events, in insertion (id) order
    listing_presence,   \* table listing_presence, in insertion (id) order
    now,                \* the `now` of the latest run of enrich_listings
    runs,               \* number of runs of enrich_listings so far
    steps,              \* those runs plus the snapshots they were handed
    batch,              \* the batch handed to the latest run
    enriched,           \* the list the latest run returned
    mutations,          \* the row each UPDATE/INSERT of the latest run left
    turns,              \* the store each turn of the latest run computed from
    before,             \* the state the latest run started from
    call,               \* the latest call of a pure function and its result
    aborted             \* whether the latest run aborted or made up for one
                        \* that did, and the store that one would have left

vars == <<listings_current, listing_events, listing_presence, now, runs,
          steps, batch, enriched, mutations, turns, before, call, aborted>>

----------------------------------------------------------------------------
(* Bounds of the model *)

MaxSteps == 6     \* runs of enrich_listings plus the snapshots handed to them

(* Python's None where a number is expected *)
None == -1

----------------------------------------------------------------------------
(* Arithmetic helpers *)

Max2(a, b) == IF a >= b THEN a ELSE b
Min2(a, b) == IF a <= b THEN a ELSE b

RECURSIVE Gcd(_, _)
Gcd(a, b) == IF b = 0 THEN a ELSE Gcd(b, a % b)

(* the fraction n/d in lowest terms, n >= 0, d > 0 *)
Frac(n, d) == LET g == Gcd(n, d) IN IF g = 0 THEN <<0, 1>> ELSE <<n \div g, d \div g>>

FAdd(x, y) ==
    LET g == Gcd(x[2], y[2])
        l == (x[2] \div g) * y[2]
    IN  Frac(x[1] * (l \div x[2]) + y[1] * (l \div y[2]), l)

FMul(x, y) ==
    LET a == Frac(x[1], y[2])
        b == Frac(y[1], x[2])
    IN  Frac(a[1] * b[1], a[2] * b[2])

FInt(k) == <<k, 1>>
FLe(x, y) == x[1] * y[2] <= y[1] * x[2]
FMin(x, y) == IF FLe(x, y) THEN x ELSE y

(* max(0, 1 - x) for a fraction x >= 0 *)
OneMinusClamped(x) == IF x[1] >= x[2] THEN <<0, 1>> ELSE Frac(x[2] - x[1], x[2])

(* Python round(): the nearest integer to n/d, a tie going to the even one *)
RoundHalfEven(n, d) ==
    LET q == n \div d
        r == n % d
    IN  IF 2 * r < d THEN q
        ELSE IF 2 * r > d THEN q + 1
        ELSE IF q % 2 = 0 THEN q ELSE q + 1

(* round(x * scale) for a fraction x *)
RoundScaled(x, scale) ==
    LET y == FMul(x, FInt(scale)) IN RoundHalfEven(y[1], y[2])

----------------------------------------------------------------------------
(* Text helpers: str.lower, str.split, str.join, substring test *)

UpperCase == <<"A","B","C","D","E","F","G","H","I","J","K","L","M",
               "N","O","P","Q","R","S","T","U","V","W","X","Y","Z">>
LowerCase == <<"a","b","c","d","e","f","g","h","i","j","k","l","m",
               "n","o","p","q","r","s","t","u","v","w","x","y","z">>
Whitespace == {" ", "\t", "\n"}

LowerChar(c) ==
    IF \E i \in 1..Len(UpperCase) : UpperCase[i] = c
    THEN LowerCase[CHOOSE i \in 1..Len(UpperCase) : UpperCase[i] = c]
    ELSE c

Lower(text) == [i \in 1..Len(text) |-> LowerChar(text[i])]

(* " ".join(text.split()): runs of whitespace collapse to one space and the
   leading and trailing ones go *)
RECURSIVE JoinSplit(_, _, _)
JoinSplit(text, i, out) ==
    IF i > Len(text) THEN out
    ELSE IF text[i] \in Whitespace THEN JoinSplit(text, i + 1, out)
    ELSE IF out # << >> /\ i > 1 /\ text[i - 1] \in Whitespace
         THEN JoinSplit(text, i + 1, out \o <<" ", text[i]>>)
         ELSE JoinSplit(text, i + 1, Append(out, text[i]))

Contains(text, k) ==
    \E i \in 1..(Len(text) - Len(k) + 1) : SubSeq(text, i, i + Len(k) - 1) = k

Digit == <<"1","2","3","4","5","6","7","8","9">>
DigitChar(d) == IF d = 0 THEN "0" ELSE Digit[d]

RECURSIVE StrInt(_)
StrInt(n) == IF n < 10 THEN <<DigitChar(n)>> ELSE Append(StrInt(n \div 10), DigitChar(n % 10))

(* A Python number of a snapshot: an int n, or a float n.t with one decimal *)
PyInt(n) == [kind |-> "int", n |-> n, t |-> 0]
PyFloat(n, t) == [kind |-> "float", n |-> n, t |-> t]
PyNone == [kind |-> "none", n |-> 0, t |-> 0]

(* str(x or ""): the empty text for None and for zero *)
StrOrEmpty(x) ==
    IF x.kind = "none" \/ (x.n = 0 /\ x.t = 0) THEN << >>
    ELSE IF x.kind = "int" THEN StrInt(x.n)
    ELSE StrInt(x.n) \o <<".", DigitChar(x.t)>>

----------------------------------------------------------------------------
(* db.py: signatures *)

_normalize_text(val) == IF val = << >> THEN << >> ELSE JoinSplit(Lower(val), 1, << >>)

signature_for(listing) ==
    _normalize_text(listing.address) \o <<"|", "|">> \o
    _normalize_text(listing.city) \o <<"|", "|">> \o
    StrOrEmpty(listing.beds) \o <<"|", "|">> \o
    StrOrEmpty(listing.baths) \o <<"|", "|">> \o
    StrOrEmpty(listing.sqft)

----------------------------------------------------------------------------
(* db.py: the store.  A db is [cur, events, presence, log]: the three tables
   and, for the run in progress, the row each statement on listings_current
   left behind.  Of a listings_current row the model keeps the columns some
   query reads (price, first_seen, last_seen, is_active, signature); source,
   url, title, address, city, beds, baths, sqft, assessed and desc_hash are
   written and never read. *)

HasRow(cur, id) == id \in DOMAIN cur

Logged(db, op, id) ==
    Append(db.log, [op |-> op, listing_id |-> id, row |-> db.cur[id]])

(* upsert_result with the two "is not None" tests left out *)
upsert_result_compares_none(db, listing) ==
    LET id == listing.listing_id
        old_price == IF HasRow(db.cur, id) THEN db.cur[id].price ELSE None
    IN  [price_changed |-> HasRow(db.cur, id) /\ old_price # listing.price,
         old_price |-> old_price,
         signature |-> listing.signature]

(* The dict upsert_listing_current returns *)
upsert_result(db, listing) ==
    LET id == listing.listing_id
        old_price == IF HasRow(db.cur, id) THEN db.cur[id].price ELSE None
    IN  [price_changed |-> /\ HasRow(db.cur, id)
                           /\ old_price # None
                           /\ listing.price # None
                           /\ old_price # listing.price,
         old_price |-> old_price,
         signature |-> listing.signature]

(* upsert_listing_current with the UPDATE writing `seen` to first_seen
   instead of last_seen *)
upsert_listing_current_first_seen(db, listing, seen) ==
    LET id == listing.listing_id
        row == IF HasRow(db.cur, id)
               THEN [db.cur[id] EXCEPT !.price = listing.price,
                                       !.first_seen = seen,
                                       !.is_active = 1,
                                       !.signature = listing.signature]
               ELSE [price |-> listing.price,
                     first_seen |-> seen,
                     last_seen |-> seen,
                     is_active |-> 1,
                     signature |-> listing.signature]
        cur == [k \in DOMAIN db.cur \cup {id} |-> IF k = id THEN row ELSE db.cur[k]]
        db1 == [db EXCEPT !.cur = cur]
    IN  [db1 EXCEPT !.log = Logged(db1, "upsert_listing_current", id)]

(* The store upsert_listing_current leaves *)
upsert_listing_current(db, listing, seen) ==
    LET id == listing.listing_id
        row == IF HasRow(db.cur, id)
               THEN [db.cur[id] EXCEPT !.price = listing.price,
                                       !.last_seen = seen,
                                       !.is_active = 1,
                                       !.signature = listing.signature]
               ELSE [price |-> listing.price,
                     first_seen |-> seen,
                     last_seen |-> seen,
                     is_active |-> 1,
                     signature |-> listing.signature]
        cur == [k \in DOMAIN db.cur \cup {id} |-> IF k = id THEN row ELSE db.cur[k]]
        db1 == [db EXCEPT !.cur = cur]
    IN  [db1 EXCEPT !.log = Logged(db1, "upsert_listing_current", id)]

(* record_event as an INSERT OR REPLACE keyed by listing and event type: the
   listing's latest event of the type is overwritten *)
record_event_replaces(db, listing_id, event_type, old_value, new_value, event_time) ==
    LET ev == [listing_id |-> listing_id, event_time |-> event_time,
               event_type |-> event_type, old_value |-> old_value,
               new_value |-> new_value]
        same == {i \in 1..Len(db.events) : /\ db.events[i].listing_id = listing_id
                                           /\ db.events[i].event_type = event_type}
    IN  IF same = {} THEN [db EXCEPT !.events = Append(@, ev)]
        ELSE [db EXCEPT !.events[CHOOSE i \in same : \A j \in same : j <= i] = ev]

record_event(db, listing_id, event_type, old_value, new_value, event_time) ==
    [db EXCEPT !.events = Append(@, [listing_id |-> listing_id,
                                     event_time |-> event_time,
                                     event_type |-> event_type,
                                     old_value |-> old_value,
                                     new_value |-> new_value])]

(* mark_seen with first_seen in the UPDATE's SET list *)
mark_seen_sets_first_seen(db, listing_id, seen) ==
    LET db1 == [db EXCEPT !.presence = Append(@, [listing_id |-> listing_id,
                                                  seen_time |-> seen])]
    IN  IF HasRow(db.cur, listing_id)
        THEN LET db2 == [db1 EXCEPT !.cur[listing_id].first_seen = seen,
                                    !.cur[listing_id].last_seen = seen,
                                    !.cur[listing_id].is_active = 1]
             IN  [db2 EXCEPT !.log = Logged(db2, "mark_seen", listing_id)]
        ELSE db1

mark_seen(db, listing_id, seen) ==
    LET db1 == [db EXCEPT !.presence = Append(@, [listing_id |-> listing_id,
                                                  seen_time |-> seen])]
    IN  IF HasRow(db.cur, listing_id)
        THEN LET db2 == [db1 EXCEPT !.cur[listing_id].last_seen = seen,
                                    !.cur[listing_id].is_active = 1]
             IN  [db2 EXCEPT !.log = Logged(db2, "mark_seen", listing_id)]
        ELSE db1

(* mark_missing with the UPDATE leaving is_active alone *)
mark_missing_keeps_active(db, listing_id, missing) ==
    LET db1 == IF HasRow(db.cur, listing_id)
               THEN LET db2 == [db EXCEPT !.cur[listing_id].last_seen = missing]
                    IN  [db2 EXCEPT !.log = Logged(db2, "mark_missing", listing_id)]
               ELSE db
    IN  record_event(db1, listing_id, "missing", None, None, missing)

(* mark_missing whose UPDATE leaves last_seen alone *)
mark_missing_keeps_last_seen(db, listing_id, missing) ==
    LET db1 == IF HasRow(db.cur, listing_id)
               THEN LET db2 == [db EXCEPT !.cur[listing_id].is_active = 0]
                    IN  [db2 EXCEPT !.log = Logged(db2, "mark_missing", listing_id)]
               ELSE db
    IN  record_event(db1, listing_id, "missing", None, None, missing)

(* The 'missing' event's old_value "None" and new_value "missing" are texts
   no query parses; both are carried as None. *)
mark_missing(db, listing_id, missing) ==
    LET db1 == IF HasRow(db.cur, listing_id)
               THEN LET db2 == [db EXCEPT !.cur[listing_id].is_active = 0,
                                          !.cur[listing_id].last_seen = missing]
                    IN  [db2 EXCEPT !.log = Logged(db2, "mark_missing", listing_id)]
               ELSE db
    IN  record_event(db1, listing_id, "missing", None, None, missing)

(* get_listing_history with the query's "listing_id=?" left out *)
get_listing_history_any_id(db, listing_id, days, wall) ==
    LET cutoff == wall - days
    IN  SelectSeq(db.events, LAMBDA ev : ev.event_time >= cutoff)

(* get_listing_history reads the wall clock, not the caller's now.  The rows
   come back in event_time order, which is the insertion order kept here. *)
get_listing_history(db, listing_id, days, wall) ==
    LET cutoff == wall - days
    IN  SelectSeq(db.events,
                  LAMBDA ev : ev.listing_id = listing_id /\ ev.event_time >= cutoff)

compute_dom_days(db, listing_id, t) ==
    IF ~HasRow(db.cur, listing_id) THEN None
    ELSE Max2(0, t - db.cur[listing_id].first_seen)

SeqMax(s) == CHOOSE m \in {s[i] : i \in 1..Len(s)} : \A i \in 1..Len(s) : s[i] <= m

RECURSIVE EventPrices(_, _)
EventPrices(events, i) ==
    IF i > Len(events) THEN << >>
    ELSE IF events[i].event_type = "price_change"
         THEN <<events[i].old_value, events[i].new_value>> \o EventPrices(events, i + 1)
         ELSE EventPrices(events, i + 1)

HistoryWindowDays == 30

(* compute_price_drop_30d comparing the stored price with the values of the
   latest 'price_change' event in the window only *)
compute_price_drop_30d_latest_event(db, listing_id, t, wall) ==
    IF ~HasRow(db.cur, listing_id) THEN 0
    ELSE LET row_price == db.cur[listing_id].price
             current_price == IF row_price = None THEN 0 ELSE row_price
             events == get_listing_history(db, listing_id, HistoryWindowDays, wall)
             found == EventPrices(events, 1)
             prices == Append(SubSeq(found, Max2(1, Len(found) - 1), Len(found)),
                              current_price)
             max_price == SeqMax(prices)
         IN  IF max_price <= 0 THEN 0
             ELSE RoundScaled(Frac(Max2(max_price - current_price, 0), max_price), 10000)

(* The ratio rounded to 4 decimals, as its numerator over 10000 *)
compute_price_drop_30d(db, listing_id, t, wall) ==
    IF ~HasRow(db.cur, listing_id) THEN 0
    ELSE LET row_price == db.cur[listing_id].price
             current_price == IF row_price = None THEN 0 ELSE row_price
             events == get_listing_history(db, listing_id, HistoryWindowDays, wall)
             prices == Append(EventPrices(events, 1), current_price)
             max_price == SeqMax(prices)
         IN  IF max_price <= 0 THEN 0
             ELSE RoundScaled(Frac(Max2(max_price - current_price, 0), max_price), 10000)

RelistDays == 7

MissingTimes(db, listing_id) ==
    {db.events[i].event_time : i \in {j \in 1..Len(db.events) :
        /\ db.events[j].listing_id = listing_id
        /\ db.events[j].event_type = "missing"}}

SetMax(S) == CHOOSE m \in S : \A x \in S : x <= m

(* The rows the query "signature=? AND listing_id != ? ORDER BY last_seen DESC
   LIMIT 1" may return: SQL leaves the order among equal last_seen open. *)
OtherCandidates(db, listing_id) ==
    LET others == {k \in DOMAIN db.cur :
                      /\ k # listing_id
                      /\ db.cur[k].signature = db.cur[listing_id].signature}
    IN  {k \in others : \A j \in others : db.cur[j].last_seen <= db.cur[k].last_seen}

(* detect_relist with "> 7" for ">= 7" *)
detect_relist_strict(db, listing_id, t) ==
    IF ~HasRow(db.cur, listing_id) THEN {FALSE}
    ELSE LET missing == MissingTimes(db, listing_id)
         IN  IF missing # {} /\ t - SetMax(missing) > RelistDays THEN {TRUE}
             ELSE LET others == OtherCandidates(db, listing_id)
                  IN  IF others = {} THEN {FALSE}
                      ELSE {db.cur[k].is_active = 0 : k \in others}

(* The set of values detect_relist may return *)
detect_relist(db, listing_id, t) ==
    IF ~HasRow(db.cur, listing_id) THEN {FALSE}
    ELSE LET missing == MissingTimes(db, listing_id)
         IN  IF missing # {} /\ t - SetMax(missing) >= RelistDays THEN {TRUE}
             ELSE LET others == OtherCandidates(db, listing_id)
                  IN  IF others = {} THEN {FALSE}
                      ELSE {db.cur[k].is_active = 0 : k \in others}

----------------------------------------------------------------------------
(* build_alerts.py: settings, keyword hits, scoring *)

KwPricedToSell == <<"p","r","i","c","e","d"," ","t","o"," ","s","e","l","l">>
KwMotivated == <<"m","o","t","i","v","a","t","e","d">>
KwMustSell == <<"m","u","s","t"," ","s","e","l","l">>
KwBringYourOffer == <<"b","r","i","n","g"," ","y","o","u","r"," ","o","f","f","e","r">>
(* the four Chinese keywords, a character written as its code point *)
KwZh1 == <<"U+6025","U+552E">>
KwZh2 == <<"U+8BDA","U+610F","U+5356">>
KwZh3 == <<"U+964D","U+4EF7">>
KwZh4 == <<"U+4F4E","U+4E8E","U+8BC4","U+4F30">>

DEFAULT_SETTINGS ==
    [below_assessed_ratio |-> <<19, 20>>,
     price_drop_ratio_30d |-> <<1, 20>>,
     dom_days |-> 45,
     motivated_keywords_en |-> <<KwPricedToSell, KwMotivated, KwMustSell, KwBringYourOffer>>,
     motivated_keywords_zh |-> <<KwZh1, KwZh2, KwZh3, KwZh4>>]

keyword_hits(text, settings) ==
    LET t == Lower(text)
        en == SelectSeq(settings.motivated_keywords_en, LAMBDA k : Contains(t, Lower(k)))
        zh == SelectSeq(settings.motivated_keywords_zh, LAMBDA k : Contains(text, k))
    IN  en \o zh

FirstN(s, n) == SubSeq(s, 1, Min2(Len(s), n))

(* A reason is <<text, number, keywords>>: the number is the percentage or the
   day count the text prints (0 when it prints none). *)
Reason(text, n, kws) == <<text, n, kws>>

(* BelowAssessedPart with "<" for "<=" *)
BelowAssessedPart_strict(listing, settings) ==
    LET price == IF listing.price = None THEN 0 ELSE listing.price
        assessed == listing.bc_assessed_value
    IN  IF assessed = None \/ assessed = 0
        THEN [hit |-> FALSE, add |-> <<0, 1>>, reasons |-> << >>]
        ELSE LET ratio == Frac(price, Max2(1, assessed))
                 gap == OneMinusClamped(ratio)
             IN  IF ~FLe(settings.below_assessed_ratio, ratio)
                 THEN [hit |-> TRUE,
                       add |-> FMul(gap, FInt(220)),
                       reasons |-> <<Reason("below assessed", RoundScaled(gap, 100), << >>)>>]
                 ELSE [hit |-> FALSE, add |-> <<0, 1>>, reasons |-> << >>]

(* evaluate_listing's score before the relist term and rounding, and the
   reasons, built signal by signal in the code's order *)
BelowAssessedPart(listing, settings) ==
    LET price == IF listing.price = None THEN 0 ELSE listing.price
        assessed == listing.bc_assessed_value
    IN  IF assessed = None \/ assessed = 0
        THEN [hit |-> FALSE, add |-> <<0, 1>>, reasons |-> << >>]
        ELSE LET ratio == Frac(price, Max2(1, assessed))
                 gap == OneMinusClamped(ratio)
             IN  IF FLe(ratio, settings.below_assessed_ratio)
                 THEN [hit |-> TRUE,
                       add |-> FMul(gap, FInt(220)),
                       reasons |-> <<Reason("below assessed", RoundScaled(gap, 100), << >>)>>]
                 ELSE [hit |-> FALSE, add |-> <<0, 1>>, reasons |-> << >>]

PriceDropPart(price_drop_ratio, settings) ==
    LET r == Frac(price_drop_ratio, 10000)
    IN  IF FLe(settings.price_drop_ratio_30d, r)
        THEN [hit |-> TRUE,
              add |-> FMul(r, FInt(140)),
              reasons |-> <<Reason("dropped in 30 days", RoundScaled(r, 100), << >>)>>]
        ELSE [hit |-> FALSE, add |-> <<0, 1>>, reasons |-> << >>]

(* LongDomPart with the quotient upside down *)
LongDomPart_inverted(dom_days, settings) ==
    IF dom_days # None /\ dom_days >= settings.dom_days
    THEN [hit |-> TRUE,
          add |-> LET share == Frac(Max2(1, settings.dom_days), Max2(1, dom_days))
                      capped == FMin(share, FInt(2))
                  IN  FMul(capped, FInt(60)),
          reasons |-> <<Reason("days listed", dom_days, << >>)>>]
    ELSE [hit |-> FALSE, add |-> <<0, 1>>, reasons |-> << >>]

LongDomPart(dom_days, settings) ==
    IF dom_days # None /\ dom_days >= settings.dom_days
    THEN [hit |-> TRUE,
          add |-> LET share == Frac(dom_days, Max2(1, settings.dom_days))
                      capped == FMin(share, FInt(2))
                  IN  FMul(capped, FInt(60)),
          reasons |-> <<Reason("days listed", dom_days, << >>)>>]
    ELSE [hit |-> FALSE, add |-> <<0, 1>>, reasons |-> << >>]

KeywordPart(hits) ==
    IF hits # << >>
    THEN [hit |-> TRUE,
          add |-> FInt(20 + Min2(Len(hits), 3) * 6),
          reasons |-> <<Reason("keywords", 0, FirstN(hits, 3))>>]
    ELSE [hit |-> FALSE, add |-> <<0, 1>>, reasons |-> << >>]

RelistPart(is_relist) ==
    IF is_relist
    THEN [hit |-> TRUE, add |-> FInt(10), reasons |-> <<Reason("possible relist", 0, << >>)>>]
    ELSE [hit |-> FALSE, add |-> <<0, 1>>, reasons |-> << >>]

(* score is round(score, 2) as its numerator over 100 *)
evaluate_listing(listing, dom_days, price_drop_ratio, is_relist, hits, settings) ==
    LET ba == BelowAssessedPart(listing, settings)
        pd == PriceDropPart(price_drop_ratio, settings)
        ld == LongDomPart(dom_days, settings)
        kw == KeywordPart(hits)
        rl == RelistPart(is_relist)
        s1 == FAdd(ba.add, pd.add)
        s2 == FAdd(s1, ld.add)
        s3 == FAdd(s2, kw.add)
        total == FAdd(s3, rl.add)
    IN  [score |-> RoundScaled(total, 100),
         reasons |-> ba.reasons \o pd.reasons \o ld.reasons \o kw.reasons \o rl.reasons,
         is_below_assessed |-> ba.hit,
         is_price_drop |-> pd.hit,
         is_long_dom |-> ld.hit,
         has_motivated_keywords |-> kw.hit]

----------------------------------------------------------------------------
(* The snapshots the runs draw their batches from.  "a", "b" and "c" describe
   one property (b's address differs in case and spacing only); "a" is seen
   at two prices. *)

Gaps == {1, 31}

Addr1 == <<"1"," ","E","l","m">>
Addr1Spaced == <<" ","1"," "," ","e","L","M">>
Addr2 == <<"9"," ","O","a","k">>
City1 == <<"Y","V","R">>
DescPlain == <<"n","e","w">>
DescMustSell == <<"M","u","s","t"," ","S","e","l","l">>

Snapshot(id, address, price, description, assessed) ==
    [listing_id |-> id, address |-> address, city |-> City1, price |-> price,
     beds |-> PyInt(2), baths |-> PyFloat(1, 5), sqft |-> PyInt(850),
     description |-> description, bc_assessed_value |-> assessed]

Snapshots ==
    {Snapshot("a", Addr1, 1000000, DescPlain, 1000000),
     Snapshot("a", Addr1, 950000, DescPlain, 1000000),
     Snapshot("b", Addr1Spaced, 1000000, DescMustSell, None),
     Snapshot("c", Addr1, None, DescPlain, None),
     Snapshot("c", Addr2, 1000000, DescPlain, 1200000)}

(* signature_for and keyword_hits of the snapshots above, computed once *)
SnapshotSignature == [s \in Snapshots |-> signature_for(s)]
SnapshotHits == [s \in Snapshots |-> keyword_hits(s.description, DEFAULT_SETTINGS)]

SignatureOf(raw) ==
    IF raw \in Snapshots THEN SnapshotSignature[raw] ELSE signature_for(raw)
HitsOf(payload, raw, settings) ==
    IF raw \in Snapshots /\ settings = DEFAULT_SETTINGS
    THEN SnapshotHits[raw] ELSE keyword_hits(payload.description, settings)

----------------------------------------------------------------------------
(* build_alerts.py: one run of enrich_listings *)

(* enrich_one scoring the price the row held before the upsert *)
enrich_one_scores_old_price(run, raw, t, wall, settings) ==
    LET payload == [signature |-> SignatureOf(raw)] @@ raw
        id == payload.listing_id
        result == upsert_result(run.db, payload)
        db1 == upsert_listing_current(run.db, payload, t)
        db2 == IF result.price_changed
               THEN record_event(db1, id, "price_change", result.old_price, payload.price, t)
               ELSE db1
        db3 == mark_seen(db2, id, t)
        dom == compute_dom_days(db3, id, t)
        dom_days == IF dom = None THEN 0 ELSE dom
        price_drop_ratio == compute_price_drop_30d(db3, id, t, wall)
        hits == HitsOf(payload, raw, settings)
        scored == IF result.old_price = None THEN payload
                  ELSE [payload EXCEPT !.price = result.old_price]
        record(is_relist) ==
            [dom_days |-> dom_days,
             price_drop_30d_ratio |-> price_drop_ratio,
             is_relist |-> is_relist]
            @@ evaluate_listing(scored, dom_days, price_drop_ratio, is_relist, hits, settings)
            @@ payload
    IN  [db |-> db3,
         turns |-> Append(run.turns, [cur |-> db3.cur, events |-> Len(db3.events)]),
         variants |-> Append(run.variants,
                             [is_relist \in detect_relist(db3, id, t) |-> record(is_relist)])]

(* One turn of the loop over the batch.  run is [db, turns, variants]: the
   store; per turn, listings_current and the length of listing_events as the
   turn's three computations read them; and per turn the record the turn
   appends to `enriched`, as a function of the value detect_relist returned
   (its domain is the set of values detect_relist may return there). *)
enrich_one(run, raw, t, wall, settings) ==
    LET payload == [signature |-> SignatureOf(raw)] @@ raw
        id == payload.listing_id
        result == upsert_result(run.db, payload)
        db1 == upsert_listing_current(run.db, payload, t)
        db2 == IF result.price_changed
               THEN record_event(db1, id, "price_change", result.old_price, payload.price, t)
               ELSE db1
        db3 == mark_seen(db2, id, t)
        dom == compute_dom_days(db3, id, t)
        dom_days == IF dom = None THEN 0 ELSE dom
        price_drop_ratio == compute_price_drop_30d(db3, id, t, wall)
        hits == HitsOf(payload, raw, settings)
        record(is_relist) ==
            [dom_days |-> dom_days,
             price_drop_30d_ratio |-> price_drop_ratio,
             is_relist |-> is_relist]
            @@ evaluate_listing(payload, dom_days, price_drop_ratio, is_relist, hits, settings)
            @@ payload
    IN  [db |-> db3,
         turns |-> Append(run.turns, [cur |-> db3.cur, events |-> Len(db3.events)]),
         variants |-> Append(run.variants,
                             [is_relist \in detect_relist(db3, id, t) |-> record(is_relist)])]

RECURSIVE enrich_loop(_, _, _, _, _, _)
enrich_loop(run, listings, i, t, wall, settings) ==
    IF i > Len(listings) THEN run
    ELSE enrich_loop(enrich_one(run, listings[i], t, wall, settings),
                     listings, i + 1, t, wall, settings)

RECURSIVE missing_loop(_, _, _, _)
missing_loop(db, order, i, t) ==
    IF i > Len(order) THEN db
    ELSE missing_loop(mark_missing(db, order[i], t), order, i + 1, t)

ActiveIds(cur) == {k \in DOMAIN cur : cur[k].is_active = 1}
SeenIds(listings) == {listings[i].listing_id : i \in 1..Len(listings)}

(* MissingIds of a run that returns early on an empty batch *)
MissingIds_unless_empty(db, listings) ==
    IF listings = << >> THEN {} ELSE ActiveIds(db.cur) \ SeenIds(listings)

(* MissingIds that leaves out the ids that went missing once before *)
MissingIds_never_missed_before(db, listings) ==
    {k \in ActiveIds(db.cur) \ SeenIds(listings) : MissingTimes(db, k) = {}}

(* missing_ids = previously_active - seen_ids *)
MissingIds(db, listings) == ActiveIds(db.cur) \ SeenIds(listings)

(* The orders in which "for mid in missing_ids" may walk a set *)
Orders(S) == {o \in [1..Cardinality(S) -> S] : \A i, j \in 1..Cardinality(S) : o[i] = o[j] => i = j}

(* What detect_relist may have returned over a batch, turn by turn *)
RelistVectors(variants) ==
    {r \in [1..Len(variants) -> BOOLEAN] : \A i \in 1..Len(variants) : r[i] \in DOMAIN variants[i]}

(* enrich_listings that marks the missing ids before the loop over the batch *)
enrich_listings_marks_missing_first(db, listings, settings, t, wall) ==
    LET order == CHOOSE o \in Orders(MissingIds(db, listings)) : TRUE
        marked == missing_loop([db EXCEPT !.log = << >>], order, 1, t)
    IN  enrich_loop([db |-> marked, turns |-> << >>, variants |-> << >>],
                    listings, 1, t, wall, settings)

(* enrich_listings from store db at time t, up to the walk over missing_ids *)
enrich_listings(db, listings, settings, t, wall) ==
    enrich_loop([db |-> [db EXCEPT !.log = << >>], turns |-> << >>, variants |-> << >>],
                listings, 1, t, wall, settings)

----------------------------------------------------------------------------
(* build_alerts.py: the ranking *)

(* x.get("score", 0) *)
ScoreKey(x) == IF "score" \in DOMAIN x THEN x.score ELSE 0

(* Insertion that puts x in front of the records it ties with *)
InsertByScore_before_ties(scored, x) ==
    LET ahead == Cardinality({i \in 1..Len(scored) : ScoreKey(scored[i]) > ScoreKey(x)})
    IN  SubSeq(scored, 1, ahead) \o <<x>> \o SubSeq(scored, ahead + 1, Len(scored))

(* x put into a list already in sorted(..., reverse=True) order: behind every
   record whose key is at least its own, Python's sort being stable *)
InsertByScore(scored, x) ==
    LET ahead == Cardinality({i \in 1..Len(scored) : ScoreKey(scored[i]) >= ScoreKey(x)})
    IN  SubSeq(scored, 1, ahead) \o <<x>> \o SubSeq(scored, ahead + 1, Len(scored))

RECURSIVE SortedByScore(_, _)
SortedByScore(listings, n) ==
    IF n = 0 THEN << >>
    ELSE InsertByScore(SortedByScore(listings, n - 1), listings[n])

(* The slice s[:k] *)
SliceTo(s, k) ==
    IF k >= 0 THEN SubSeq(s, 1, Min2(k, Len(s)))
    ELSE SubSeq(s, 1, Max2(0, Len(s) + k))

AlertCount == 10

(* Of a record the model keeps listing_id, dom_days and score: a deal copies
   all three, an alert leaves dom_days out. *)
DealOf(x) == [listing_id |-> x.listing_id, dom_days |-> x.dom_days, score |-> x.score]
AlertOf(x) == [listing_id |-> x.listing_id, score |-> x.score]

build_outputs(listings, top_k) ==
    LET scored == SortedByScore(listings, Len(listings))
        top == SliceTo(scored, top_k)
        head == SliceTo(scored, AlertCount)
    IN  [alerts |-> [i \in 1..Len(head) |-> AlertOf(head[i])],
         deals |-> [i \in 1..Len(top) |-> DealOf(top[i])]]

----------------------------------------------------------------------------
(* The state machine *)

NoCall == [fn |-> "none"]

(* `before` is the state the latest run started from *)
NoRun == [cur |-> << >>, events |-> << >>, presence |-> << >>, now |-> 0,
          batch |-> << >>, enriched |-> << >>]

(* No run has aborted, or the run after it is over as well *)
NoAbort == [phase |-> "none", cur |-> << >>, events |-> << >>]

Store == [cur |-> listings_current, events |-> listing_events,
          presence |-> listing_presence, log |-> mutations]

InitStore ==
    /\ listings_current = << >>
    /\ listing_events = << >>
    /\ listing_presence = << >>
    /\ now = 0
    /\ runs = 0
    /\ steps = 0
    /\ batch = << >>
    /\ enriched = << >>
    /\ mutations = << >>
    /\ turns = << >>
    /\ before = NoRun
    /\ aborted = NoAbort

Init == InitStore /\ call = NoCall

(* main(): one invocation runs enrich_listings once, to completion; the first
   run is at day 0 and each later one gap days after the one before.  relist
   is what detect_relist returned turn by turn, order the walk over
   missing_ids.  The run after an aborted one is handed the same batch. *)
RunWithin(listings, gap, most) ==
    /\ steps + 1 + Len(listings) <= most
    /\ runs = 0 => gap = 1
    /\ aborted.phase = "aborted" => listings = batch
    /\ aborted' = IF aborted.phase = "aborted"
                  THEN [aborted EXCEPT !.phase = "rerun"]
                  ELSE NoAbort
    /\ LET t == IF runs = 0 THEN 0 ELSE now + gap
           looped == enrich_listings(Store, listings, DEFAULT_SETTINGS, t, t)
       IN  \E relist \in RelistVectors(looped.variants),
              order \in Orders(MissingIds(Store, listings)) :
               LET db == missing_loop(looped.db, order, 1, t)
               IN  /\ listings_current' = db.cur
                   /\ listing_events' = db.events
                   /\ listing_presence' = db.presence
                   /\ mutations' = db.log
                   /\ turns' = looped.turns
                   /\ before' = [cur |-> listings_current, events |-> listing_events,
                                 presence |-> listing_presence, now |-> now,
                                 batch |-> batch, enriched |-> enriched]
                   /\ enriched' = [i \in 1..Len(listings) |-> looped.variants[i][relist[i]]]
                   /\ batch' = listings
                   /\ now' = t
                   /\ runs' = runs + 1
                   /\ steps' = steps + 1 + Len(listings)
    /\ UNCHANGED call

Run(listings, gap) == RunWithin(listings, gap, MaxSteps)

Next ==
    \E n \in 0..(MaxSteps - steps - 1) :
        \E listings \in [1..n -> Snapshots], gap \in Gaps : Run(listings, gap)

Spec == Init /\ [][Next]_vars

----------------------------------------------------------------------------
(* evaluate_listing on its own: the inputs are drawn at the start, evaluated,
   and then re-evaluated with one input changed; `call` keeps the evaluation
   before the latest one as prev. *)

storeVars == <<listings_current, listing_events, listing_presence, now, runs,
               steps, batch, enriched, mutations, turns, before, aborted>>

MaxHits == 4      \* keyword hits handed to evaluate_listing

EvalKeywords == DEFAULT_SETTINGS.motivated_keywords_en \o DEFAULT_SETTINGS.motivated_keywords_zh

(* Settings with every threshold moved *)
OtherSettings ==
    [DEFAULT_SETTINGS EXCEPT !.below_assessed_ratio = <<9, 10>>,
                             !.price_drop_ratio_30d = <<1, 10>>,
                             !.dom_days = 0]

EvalListings == [price : {900000, 950000, 1000000}, bc_assessed_value : {None, 1000000}]
EvalDoms == {None, 44, 45, 91}
EvalRatios == {0, 499, 500, 1000}
EvalHits == {FirstN(EvalKeywords, n) : n \in 0..MaxHits}

EvalArgs ==
    [listing : EvalListings, dom_days : EvalDoms, price_drop_ratio : EvalRatios,
     is_relist : BOOLEAN, hits : EvalHits, settings : {DEFAULT_SETTINGS, OtherSettings}]

Evaluated(a, prev) ==
    [fn |-> "evaluate_listing", args |-> a,
     result |-> evaluate_listing(a.listing, a.dom_days, a.price_drop_ratio,
                                 a.is_relist, a.hits, a.settings),
     prev |-> prev]

InitEval == InitStore /\ call \in {[fn |-> "none", args |-> a] : a \in EvalArgs}

EvaluateListing ==
    /\ call.fn = "none"
    /\ call' = Evaluated(call.args, NoCall)
    /\ UNCHANGED storeVars

ReevaluateListing ==
    /\ call.fn = "evaluate_listing"
    /\ \E a \in {[call.args EXCEPT !.listing = l] : l \in EvalListings}
               \cup {[call.args EXCEPT !.dom_days = d] : d \in EvalDoms}
               \cup {[call.args EXCEPT !.price_drop_ratio = r] : r \in EvalRatios}
               \cup {[call.args EXCEPT !.hits = h] : h \in EvalHits} :
           /\ a # call.args
           /\ call' = Evaluated(a, [fn |-> call.fn, args |-> call.args, result |-> call.result])
    /\ UNCHANGED storeVars

NextEval == EvaluateListing \/ ReevaluateListing

SpecEval == InitEval /\ [][NextEval]_vars

----------------------------------------------------------------------------
(* build_outputs on its own: a list of scored records and a top_k are drawn
   at the start and ranked.  A record's listing_id is its place in the list. *)

MaxRecords == 11  \* records handed to build_outputs

RankScores == {0, 1100}
TopKs == {-1, 0, 2, 50}

RankLists ==
    UNION {[1..n -> [listing_id : {0}, dom_days : {0}, score : RankScores]] : n \in 0..MaxRecords}

Numbered(listings) == [i \in 1..Len(listings) |-> [listings[i] EXCEPT !.listing_id = i]]

InitRank ==
    /\ InitStore
    /\ call \in {[fn |-> "none", args |-> [listings |-> Numbered(l), top_k |-> k]] :
                     l \in RankLists, k \in TopKs}

BuildOutputs ==
    /\ call.fn = "none"
    /\ call' = [fn |-> "build_outputs", args |-> call.args,
                result |-> build_outputs(call.args.listings, call.args.top_k)]
    /\ UNCHANGED storeVars

NextRank == BuildOutputs

SpecRank == InitRank /\ [][NextRank]_vars

----------------------------------------------------------------------------
(* Runs that abort.  Each store function ends in conn.commit(): a turn of
   the loop commits after upsert_listing_current, after record_event if the
   price changed, and after mark_seen; mark_missing's UPDATE is committed by
   the record_event it calls.  A process that dies leaves the store as the
   last commit left it. *)

(* A commit that leaves store db: st is [db, done, at], the store, the
   number of commits made so far, and the store as commit number k left it *)
Committed(st, db, k) ==
    [db |-> db, done |-> st.done + 1, at |-> IF st.done + 1 = k THEN db ELSE st.at]

(* The loop over the batch, commit by commit *)
RECURSIVE enrich_commits(_, _, _, _, _)
enrich_commits(st, listings, i, t, k) ==
    IF i > Len(listings) THEN st
    ELSE LET raw == listings[i]
             payload == [signature |-> SignatureOf(raw)] @@ raw
             id == payload.listing_id
             result == upsert_result(st.db, payload)
             st1 == Committed(st, upsert_listing_current(st.db, payload, t), k)
             st2 == IF result.price_changed
                    THEN Committed(st1, record_event(st1.db, id, "price_change",
                                                     result.old_price, payload.price, t), k)
                    ELSE st1
             st3 == Committed(st2, mark_seen(st2.db, id, t), k)
         IN  enrich_commits(st3, listings, i + 1, t, k)

(* The walk over missing_ids, commit by commit *)
RECURSIVE missing_commits(_, _, _, _, _)
missing_commits(st, order, i, t, k) ==
    IF i > Len(order) THEN st
    ELSE missing_commits(Committed(st, mark_missing(st.db, order[i], t), k),
                         order, i + 1, t, k)

(* enrich_listings commit by commit: the store it leaves, the number of
   commits it makes and the store as commit number k left it *)
run_commits(db, listings, order, t, k) ==
    LET db0 == [db EXCEPT !.log = << >>]
        looped == enrich_commits([db |-> db0, done |-> 0, at |-> db0], listings, 1, t, k)
    IN  missing_commits(looped, order, 1, t, k)

(* main() dying after the k-th commit of its run, with at least one commit
   left to make; `aborted` keeps the store the run would have left *)
AbortedRun(listings, gap, k) ==
    /\ steps + 1 + Len(listings) <= MaxSteps
    /\ runs = 0 => gap = 1
    /\ aborted.phase # "aborted"
    /\ LET t == IF runs = 0 THEN 0 ELSE now + gap
       IN  \E order \in Orders(MissingIds(Store, listings)) :
               LET whole == run_commits(Store, listings, order, t, k)
               IN  /\ k < whole.done
                   /\ listings_current' = whole.at.cur
                   /\ listing_events' = whole.at.events
                   /\ listing_presence' = whole.at.presence
                   /\ mutations' = whole.at.log
                   /\ aborted' = [phase |-> "aborted", cur |-> whole.db.cur,
                                  events |-> whole.db.events]
                   /\ now' = t
    /\ turns' = << >>
    /\ before' = [cur |-> listings_current, events |-> listing_events,
                  presence |-> listing_presence, now |-> now,
                  batch |-> batch, enriched |-> enriched]
    /\ enriched' = << >>
    /\ batch' = listings
    /\ runs' = runs + 1
    /\ steps' = steps + 1 + Len(listings)
    /\ UNCHANGED call

(* The batches of the runs that may abort: "a" at two prices, and "b" *)
CrashSnapshots == {s \in Snapshots : s.listing_id \in {"a", "b"}}

NextCrash ==
    \/ \E n \in 0..(MaxSteps - steps - 1) :
           \E listings \in [1..n -> CrashSnapshots], gap \in Gaps : Run(listings, gap)
    \/ \E n \in 0..(MaxSteps - steps - 1) :
           \E listings \in [1..n -> CrashSnapshots], gap \in Gaps, k \in 1..(3 * n + 2) :
               AbortedRun(listings, gap, k)

SpecCrash == Init /\ [][NextCrash]_vars

----------------------------------------------------------------------------
(* compute_price_drop_30d on its own: one listing is observed run after run
   at prices that fall by a third, by a tenth, or rise, and the ratio is then
   asked for with a `now` and at a wall-clock time that need not agree. *)

DropPrices == {None, 600000, 900000, 1000000}
AskDelays == {0, 31}

DropSnapshot(price) == Snapshot("a", Addr1, price, DescPlain, None)

ObservePrice(price, gap) ==
    /\ call = NoCall
    /\ Run(<<DropSnapshot(price)>>, gap)

ComputePriceDrop(listing_id, t, wall) ==
    /\ runs > 0
    /\ call' = [fn |-> "compute_price_drop_30d",
                args |-> [listing_id |-> listing_id, now |-> t, wall |-> wall],
                result |-> compute_price_drop_30d(Store, listing_id, t, wall)]
    /\ UNCHANGED storeVars

NextDrop ==
    \/ \E price \in DropPrices, gap \in Gaps : ObservePrice(price, gap)
    \/ \E dt \in AskDelays, dw \in AskDelays : ComputePriceDrop("a", now + dt, now + dw)

SpecDrop == Init /\ [][NextDrop]_vars

----------------------------------------------------------------------------
(* Runs over listings of one signature, one step longer: a listing, a second
   one that takes its place, and a run that sees both again *)

MaxRelistSteps == 7

RelistSnapshots ==
    {Snapshot("a", Addr1, 1000000, DescPlain, 1000000),
     Snapshot("b", Addr1Spaced, 1000000, DescMustSell, None),
     Snapshot("c", Addr1, None, DescPlain, None)}

NextRelist ==
    \E n \in 0..(MaxRelistSteps - steps - 1) :
        \E listings \in [1..n -> RelistSnapshots], gap \in Gaps :
            RunWithin(listings, gap, MaxRelistSteps)

SpecRelist == Init /\ [][NextRelist]_vars

----------------------------------------------------------------------------
(* signature_for on its own: two snapshots are drawn at the start and signed.
   Their numbers are Python values: 2 and 2.0 are an int and a float. *)

SigAddresses == {<< >>, Addr1, Addr1Spaced, Addr2}
SigCities == {City1, Lower(City1)}
SigBeds == {PyNone, PyInt(0), PyInt(2), PyFloat(2, 0)}
SigBaths == {PyFloat(1, 5), PyInt(2)}
SigSqfts == {PyNone, PyInt(850)}

SigSnapshots ==
    [address : SigAddresses, city : SigCities, beds : SigBeds, baths : SigBaths,
     sqft : SigSqfts]

InitSig ==
    /\ InitStore
    /\ call \in {[fn |-> "none", args |-> [first |-> s, second |-> r]] :
                     s \in SigSnapshots, r \in SigSnapshots}

SignatureFor ==
    /\ call.fn = "none"
    /\ call' = [fn |-> "signature_for", args |-> call.args,
                result |-> [first |-> signature_for(call.args.first),
                            second |-> signature_for(call.args.second)]]
    /\ UNCHANGED storeVars

NextSig == SignatureFor

SpecSig == InitSig /\ [][NextSig]_vars

----------------------------------------------------------------------------
(* fetch_public.py.  The site is what a call meets: whether robots.txt could
   be read and what it allows, which pages sit fresh in the cache, which
   requests fail, and what the pages hold.  A call answers with its listings,
   the page requests it issued in order, and the cache it leaves. *)

base_url == "https://www.realtor.ca"
sample_path == "/"
SearchUrl(city) == base_url \o "/map#City=" \o city

TargetCities == {"Vancouver", "Burnaby"}
Urls == {sample_path} \cup {SearchUrl(city) : city \in TargetCities}

(* fetch_robots_txt: None if reading raised, else the parser; a parser is
   known by the urls its can_fetch allows *)
RobotsNone == [read |-> FALSE, allowed |-> {}]
RobotFileParsers == {[read |-> TRUE, allowed |-> a] : a \in SUBSET Urls}
fetch_robots_txt(site) == site.robots

(* is_allowed asking about the site root whatever the url *)
is_allowed_sample_path(url, robots) ==
    IF ~robots.read THEN FALSE ELSE sample_path \in robots.allowed

is_allowed(url, robots) ==
    IF ~robots.read THEN FALSE ELSE url \in robots.allowed

(* A search page is a sequence of cards *)
Html(city) ==
    << [listingid |-> city \o "-1", price |-> 900000],
       [listingid |-> city \o "-2", price |-> None] >>

(* http_get: the cached text if the cache holds a fresh one, without a
   request; else a request, which raises or answers and fills the cache *)
http_get(url, city, site, cache) ==
    IF url \in cache
    THEN [raised |-> FALSE, html |-> Html(city), requests |-> << >>, cache |-> cache]
    ELSE IF url \in site.down
    THEN [raised |-> TRUE, html |-> << >>, requests |-> <<url>>, cache |-> cache]
    ELSE [raised |-> FALSE, html |-> Html(city), requests |-> <<url>>,
          cache |-> cache \cup {url}]

_parse_listings_from_search(html) ==
    [i \in 1..Len(html) |->
        [listing_id |-> html[i].listingid, source |-> "realtor_public_poc",
         address |-> << >>, city |-> << >>,
         price |-> IF html[i].price = None THEN 0 ELSE html[i].price]]

RECURSIVE search_pages(_, _, _, _)
search_pages(cities, robots, site, st) ==
    IF cities = << >> THEN st
    ELSE LET search_url == SearchUrl(Head(cities))
         IN  IF ~is_allowed(search_url, robots)
             THEN search_pages(Tail(cities), robots, site, st)
             ELSE LET got == http_get(search_url, Head(cities), site, st.cache)
                      parsed == IF got.raised THEN << >>
                                ELSE _parse_listings_from_search(got.html)
                  IN  search_pages(Tail(cities), robots, site,
                          [listings |-> st.listings \o parsed,
                           requests |-> st.requests \o got.requests,
                           cache |-> got.cache])

fetch_realtor_public_poc(settings, site) ==
    LET robots == fetch_robots_txt(site)
        nothing == [listings |-> << >>, requests |-> << >>, cache |-> site.cache]
    IN  IF ~robots.read THEN nothing
        ELSE IF ~is_allowed(sample_path, robots) THEN nothing
        ELSE LET limits == settings.limits
                 found == search_pages(
                              FirstN(settings.target_cities, limits.max_search_pages),
                              robots, site, nothing)
             IN  [found EXCEPT !.listings = FirstN(found.listings, limits.max_detail_pages)]

MaxCities == 2      \* cities in settings["target_cities"]
CityLists == UNION {[1..n -> TargetCities] : n \in 0..MaxCities}
FetchSettings ==
    [target_cities : CityLists,
     limits : [max_search_pages : {0, 1, 2}, max_detail_pages : {1, 40}]]
Sites ==
    [robots : {RobotsNone} \cup RobotFileParsers,
     cache : SUBSET (Urls \ {sample_path}),
     down : SUBSET (Urls \ {sample_path})]

InitFetch ==
    /\ InitStore
    /\ call \in {[fn |-> "none", args |-> [settings |-> s, site |-> w]] :
                     s \in FetchSettings, w \in Sites}

FetchRealtorPublicPoc ==
    /\ call.fn = "none"
    /\ call' = [fn |-> "fetch_realtor_public_poc", args |-> call.args,
                result |-> fetch_realtor_public_poc(call.args.settings, call.args.site)]
    /\ UNCHANGED storeVars

NextFetch == FetchRealtorPublicPoc

SpecFetch == InitFetch /\ [][NextFetch]_vars

----------------------------------------------------------------------------
(* Properties of the runs *)

AllIds == {s.listing_id : s \in Snapshots}

EventsOf(events, id, type) ==
    {i \in 1..Len(events) : events[i].listing_id = id /\ events[i].event_type = type}

(* The 'missing' events of id the latest run appended *)
FreshMissing(id) ==
    {i \in EventsOf(listing_events, id, "missing") : i > Len(before.events)}

(* The store as turn i of the latest run read it for its three signals *)
TurnStore(i) ==
    [cur |-> turns[i].cur,
     events |-> SubSeq(listing_events, 1, turns[i].events),
     presence |-> listing_presence,
     log |-> << >>]

(* The latest run was handed the batch of the run before it, at a later time *)
Rerun == runs >= 2 /\ batch = before.batch /\ now > before.now

(* C1: a listing that is active when a run starts and is not in the run's
   batch is inactive after the run and has got exactly one 'missing' event
   from it, stamped with the run's now; a listing that is already inactive
   when a run starts and is still not in the batch gets no 'missing' event. *)
MissingEventOnce ==
    runs > 0 =>
        /\ SubSeq(listing_events, 1, Len(before.events)) = before.events
        /\ \A id \in DOMAIN before.cur \ SeenIds(batch) :
               /\ listings_current[id].is_active = 0
               /\ IF before.cur[id].is_active = 1
                  THEN /\ Cardinality(FreshMissing(id)) = 1
                       /\ \A i \in FreshMissing(id) : listing_events[i].event_time = now
                  ELSE FreshMissing(id) = {}

(* A listing absent from two runs in a row, with the one 'missing' event the
   first of them gave it *)
MissingEventOnceWitness ==
    /\ runs >= 3
    /\ \E id \in DOMAIN before.cur \ (SeenIds(batch) \cup SeenIds(before.batch)) :
           /\ before.cur[id].is_active = 0
           /\ Cardinality(EventsOf(listing_events, id, "missing")) = 1
           /\ \A i \in EventsOf(listing_events, id, "missing") :
                  listing_events[i].event_time = before.now

(* C2: every row of listings_current has first_seen <= last_seen, in the
   store between runs and as each upsert_listing_current, mark_seen and
   mark_missing of a run left it. *)
FirstSeenBeforeLastSeen ==
    /\ \A id \in DOMAIN listings_current :
           listings_current[id].first_seen <= listings_current[id].last_seen
    /\ \A i \in 1..Len(mutations) :
           mutations[i].row.first_seen <= mutations[i].row.last_seen

(* A run that updated a row first seen earlier, and marked another missing *)
FirstSeenBeforeLastSeenWitness ==
    /\ \E i \in 1..Len(mutations) :
           /\ mutations[i].op = "upsert_listing_current"
           /\ mutations[i].row.first_seen < now
    /\ \E i \in 1..Len(mutations) :
           /\ mutations[i].op = "mark_seen"
           /\ mutations[i].row.first_seen < mutations[i].row.last_seen
    /\ \E i \in 1..Len(mutations) :
           /\ mutations[i].op = "mark_missing"
           /\ mutations[i].row.first_seen < mutations[i].row.last_seen

(* C3: a run handed the batch of the run before it, at a later time, appends
   no 'price_change' event. *)
RerunAppendsNoPriceChange ==
    Rerun =>
        \A i \in (Len(before.events) + 1)..Len(listing_events) :
            listing_events[i].event_type # "price_change"

(* The score evaluate_listing gives the record p of the previous run under
   other days on market, price-drop ratio and relist flag *)
ScoreFrom(p, raw, dom_days, price_drop_ratio, is_relist) ==
    evaluate_listing(p, dom_days, price_drop_ratio, is_relist,
                     HitsOf(p, raw, DEFAULT_SETTINGS), DEFAULT_SETTINGS).score

ReasonsNamed(e, text) == SelectSeq(e.reasons, LAMBDA r : r[1] = text)

SameAssessedAndKeywordTerms(e, p) ==
    /\ e.is_below_assessed = p.is_below_assessed
    /\ e.has_motivated_keywords = p.has_motivated_keywords
    /\ ReasonsNamed(e, "below assessed") = ReasonsNamed(p, "below assessed")
    /\ ReasonsNamed(e, "keywords") = ReasonsNamed(p, "keywords")

(* C4 as the specification words it: a run handed the batch of the run
   before it, at a later time, returns for every listing the previous
   price_drop_30d_ratio and is_relist and a score that differs from the
   previous one through the days-on-market term only. *)
RerunChangesDomTermOnly ==
    Rerun =>
        \A i \in 1..Len(batch) :
            LET e == enriched[i]
                p == before.enriched[i]
            IN  /\ e.price_drop_30d_ratio = p.price_drop_30d_ratio
                /\ e.is_relist = p.is_relist
                /\ SameAssessedAndKeywordTerms(e, p)
                /\ e.score = ScoreFrom(p, batch[i], e.dom_days,
                                       p.price_drop_30d_ratio, p.is_relist)

(* C4: a run handed the batch of the run before it, at a later time, returns
   for every listing the previous below-assessed and keyword terms, and a
   score that differs from the previous one through the days-on-market,
   price-drop and relist terms only. *)
RerunKeepsAssessedAndKeywordTerms ==
    Rerun =>
        \A i \in 1..Len(batch) :
            LET e == enriched[i]
                p == before.enriched[i]
            IN  /\ SameAssessedAndKeywordTerms(e, p)
                /\ e.score = ScoreFrom(p, batch[i], e.dom_days,
                                       e.price_drop_30d_ratio, e.is_relist)

(* A re-run that scores a below-assessed listing with another relist flag
   than the run before *)
RerunKeepsAssessedAndKeywordTermsWitness ==
    /\ Rerun
    /\ \E i \in 1..Len(batch) :
           /\ enriched[i].is_below_assessed
           /\ enriched[i].dom_days > before.enriched[i].dom_days
           /\ enriched[i].is_relist # before.enriched[i].is_relist
           /\ enriched[i].score # before.enriched[i].score

(* The days after the latest run at which a signal is asked for *)
DropDelays == {0, 31}
RelistDelays == {0, 6, 7}

(* C5: compute_price_drop_30d returns a ratio in [0, 1] (0..10000 in ten
   thousandths) for every listing id, and 0 for an id that has no
   price_change event or no row; asked between runs and inside a run. *)
PriceDropInUnitRange ==
    /\ \A id \in AllIds, d \in DropDelays :
           LET r == compute_price_drop_30d(Store, id, now + d, now + d)
           IN  /\ 0 <= r /\ r <= 10000
               /\ (EventsOf(listing_events, id, "price_change") = {}
                   \/ ~HasRow(listings_current, id)) => r = 0
    /\ \A i \in 1..Len(enriched) :
           LET r == enriched[i].price_drop_30d_ratio
           IN  /\ 0 <= r /\ r <= 10000
               /\ EventsOf(TurnStore(i).events, batch[i].listing_id, "price_change") = {}
                      => r = 0

(* A listing with a price_change event and a ratio of 0.05, and a stored
   listing without one *)
PriceDropInUnitRangeWitness ==
    /\ \E i \in 1..Len(enriched) :
           /\ enriched[i].price_drop_30d_ratio = 500
           /\ EventsOf(listing_events, batch[i].listing_id, "price_change") # {}
    /\ \E id \in DOMAIN listings_current :
           EventsOf(listing_events, id, "price_change") = {}

(* The most recent 'missing' event of id in db is at least 7 days before t *)
MissingSevenDays(db, id, t) ==
    LET missing == {db.events[i].event_time : i \in EventsOf(db.events, id, "missing")}
    IN  missing # {} /\ \A m \in missing : t - m >= 7

Twins(cur, id) == {k \in DOMAIN cur \ {id} : cur[k].signature = cur[id].signature}

(* C6: detect_relist returns true for an id whose most recent 'missing'
   event is at least 7 days before now, whether or not another listing has
   its signature and however often the id was observed since; asked between
   runs and inside a run. *)
RelistAfterSevenDaysMissing ==
    /\ \A id \in DOMAIN listings_current, d \in RelistDelays :
           MissingSevenDays(Store, id, now + d)
               => detect_relist(Store, id, now + d) = {TRUE}
    /\ \A i \in 1..Len(enriched) :
           MissingSevenDays(TurnStore(i), batch[i].listing_id, now)
               => enriched[i].is_relist

(* A listing that went missing 7 days or more ago, observed twice since,
   whose signature no other listing has, returned as a relist *)
RelistAfterSevenDaysMissingWitness ==
    \E i \in 1..Len(enriched) :
        LET id == batch[i].listing_id
        IN  /\ MissingSevenDays(TurnStore(i), id, now)
            /\ Twins(listings_current, id) = {}
            /\ Cardinality({j \in 1..Len(listing_presence) :
                   /\ listing_presence[j].listing_id = id
                   /\ \A m \in EventsOf(listing_events, id, "missing") :
                          listing_presence[j].seen_time > listing_events[m].event_time}) >= 2
            /\ enriched[i].is_relist

(* C7: detect_relist returns true for an id as soon as some other listing
   with its signature is inactive, whatever the listings of that signature
   that are active; asked between runs and inside a run. *)
RelistWhenSomeTwinInactive ==
    /\ \A id \in DOMAIN listings_current, d \in RelistDelays :
           (\E k \in Twins(listings_current, id) : listings_current[k].is_active = 0)
               => detect_relist(Store, id, now + d) = {TRUE}
    /\ \A i \in 1..Len(enriched) :
           (\E k \in Twins(turns[i].cur, batch[i].listing_id) : turns[i].cur[k].is_active = 0)
               => enriched[i].is_relist

----------------------------------------------------------------------------
(* Properties of evaluate_listing *)

AssessedKnown(listing) == listing.bc_assessed_value # None /\ listing.bc_assessed_value # 0

(* gap = max(0, 1 - price / assessed) *)
GapOf(listing) == OneMinusClamped(Frac(listing.price, Max2(1, listing.bc_assessed_value)))

(* b has at least a's below-assessed gap, price-drop ratio, days on market
   and number of keyword hits, and a's relist flag and thresholds *)
NotLower(a, b) ==
    /\ b.settings = a.settings
    /\ b.is_relist = a.is_relist
    /\ \/ b.listing = a.listing
       \/ /\ AssessedKnown(a.listing) /\ AssessedKnown(b.listing)
          /\ FLe(GapOf(a.listing), GapOf(b.listing))
    /\ a.price_drop_ratio <= b.price_drop_ratio
    /\ \/ b.dom_days = a.dom_days
       \/ a.dom_days # None /\ b.dom_days # None /\ a.dom_days <= b.dom_days
    /\ Len(a.hits) <= Len(b.hits)

Reevaluated == call.fn = "evaluate_listing" /\ call.prev # NoCall

(* C8: evaluate_listing's score does not go down when one of the
   below-assessed gap, the price-drop ratio, the days on market and the
   number of keyword hits goes up and every other input and the thresholds
   stay as they were. *)
ScoreMonotone ==
    (Reevaluated /\ NotLower(call.prev.args, call.args))
        => call.result.score >= call.prev.result.score

(* A larger gap, a larger ratio, more days and more hits, each with a larger
   score *)
ScoreMonotoneWitness ==
    /\ Reevaluated
    /\ NotLower(call.prev.args, call.args)
    /\ call.result.score > call.prev.result.score
    /\ AssessedKnown(call.args.listing)
    /\ AssessedKnown(call.prev.args.listing)
    /\ ~FLe(GapOf(call.args.listing), GapOf(call.prev.args.listing))

OnlyBelowAssessedAsked ==
    /\ call.fn = "evaluate_listing"
    /\ call.args.listing.price = 950000
    /\ call.args.listing.bc_assessed_value = 1000000
    /\ call.args.settings.below_assessed_ratio = <<19, 20>>
    /\ ~call.result.is_price_drop
    /\ ~call.result.is_long_dom
    /\ ~call.result.has_motivated_keywords
    /\ ~call.args.is_relist

(* C9: at price 950000, assessed value 1000000 and below_assessed_ratio 0.95,
   with no other signal triggered, evaluate_listing sets is_below_assessed,
   returns the score 11.0 (1100 hundredths) and a first reason that prints
   5%. *)
BelowAssessedInclusive ==
    OnlyBelowAssessedAsked =>
        /\ call.result.is_below_assessed
        /\ call.result.score = 1100
        /\ Len(call.result.reasons) = 1
        /\ call.result.reasons[1] = Reason("below assessed", 5, << >>)

(* The evaluation at the threshold, with days on market just under theirs *)
BelowAssessedInclusiveWitness ==
    /\ OnlyBelowAssessedAsked
    /\ call.args.dom_days = 44
    /\ call.args.price_drop_ratio = 499

----------------------------------------------------------------------------
(* Properties of build_outputs *)

(* The place of an output record in the list build_outputs was handed *)
BatchPlace(x) ==
    CHOOSE k \in 1..Len(call.args.listings) : call.args.listings[k].listing_id = x.listing_id

RankedStably(out) ==
    \A i, j \in 1..Len(out) :
        i < j => /\ out[i].score >= out[j].score
                 /\ out[i].score = out[j].score => BatchPlace(out[i]) < BatchPlace(out[j])

(* C10: in deals and in alerts the scores never go up from one record to the
   next, and records of equal score stand in the order the batch had them. *)
RankStableDescending ==
    call.fn = "build_outputs" =>
        /\ RankedStably(call.result.deals)
        /\ RankedStably(call.result.alerts)

Reordered(out) ==
    /\ \E i, j \in 1..Len(out) : i < j /\ BatchPlace(out[i]) > BatchPlace(out[j])
    /\ \E i, j \in 1..Len(out) : i < j /\ out[i].score = out[j].score

(* A ranking that moved a record up and kept two of equal score *)
RankStableDescendingWitness ==
    /\ call.fn = "build_outputs"
    /\ Reordered(call.result.deals)
    /\ Reordered(call.result.alerts)

(* C11: deals are the first min(top_k, n) records (none when that is below
   zero) and alerts the first min(10, n) records of the one ranked sequence,
   whatever top_k is. *)
TopKSlices ==
    call.fn = "build_outputs" =>
        LET listings == call.args.listings
            n == Len(listings)
            ranked == SortedByScore(listings, n)
            k == Max2(0, Min2(call.args.top_k, n))
        IN  /\ call.result.deals = [i \in 1..k |-> DealOf(ranked[i])]
            /\ call.result.alerts = [i \in 1..Min2(10, n) |-> AlertOf(ranked[i])]

----------------------------------------------------------------------------
(* Properties of the turns of a run *)

(* listings_current and the length of listing_events as turn i of the latest
   run found them *)
TurnCurFrom(i) == IF i = 1 THEN before.cur ELSE turns[i - 1].cur
TurnEventsFrom(i) == IF i = 1 THEN Len(before.events) ELSE turns[i - 1].events

(* The events turn i of the latest run appended *)
TurnEvents(i) == SubSeq(listing_events, TurnEventsFrom(i) + 1, turns[i].events)

PriceChange(id, old, new, t) ==
    [listing_id |-> id, event_time |-> t, event_type |-> "price_change",
     old_value |-> old, new_value |-> new]

(* C12 as the specification words it: a turn that observes a stored id at a
   price other than the stored one, either of them absent or not, appends
   exactly one 'price_change' event, from the stored price to the observed
   one; at the stored price it appends none. *)
PriceChangeWhenDiffers ==
    \A i \in 1..Len(batch) :
        LET id == batch[i].listing_id
            cur == TurnCurFrom(i)
        IN  HasRow(cur, id) =>
                TurnEvents(i) = IF cur[id].price # batch[i].price
                                THEN <<PriceChange(id, cur[id].price, batch[i].price, now)>>
                                ELSE << >>

(* C12: a turn that observes a stored id at a price other than the stored
   one, both of them present, appends exactly one 'price_change' event, from
   the stored price to the observed one; at the stored price, or with the
   stored or the observed price absent, it appends none. *)
PriceChangeWhenBothPresent ==
    \A i \in 1..Len(batch) :
        LET id == batch[i].listing_id
            cur == TurnCurFrom(i)
        IN  HasRow(cur, id) =>
                TurnEvents(i) = IF /\ cur[id].price # None
                                   /\ batch[i].price # None
                                   /\ cur[id].price # batch[i].price
                                THEN <<PriceChange(id, cur[id].price, batch[i].price, now)>>
                                ELSE << >>

(* A run with a turn that found a price, observed another and appended the
   event, and a turn that found no price and observed one *)
PriceChangeWhenBothPresentWitness ==
    /\ \E i \in 1..Len(batch) :
           /\ HasRow(TurnCurFrom(i), batch[i].listing_id)
           /\ Len(TurnEvents(i)) = 1
           /\ TurnEvents(i)[1].old_value = 1000000
           /\ TurnEvents(i)[1].new_value = 950000
    /\ \E i \in 1..Len(batch) :
           /\ HasRow(TurnCurFrom(i), batch[i].listing_id)
           /\ TurnCurFrom(i)[batch[i].listing_id].price = None
           /\ batch[i].price # None
           /\ TurnEvents(i) = << >>

IsPrefix(s, t) == Len(s) <= Len(t) /\ SubSeq(t, 1, Len(s)) = s

(* C13: the listing_events rows a run started from are, unchanged and in
   place, the first rows after it; no turn of a run shortens the log; and
   from the store between runs each of upsert_listing_current, record_event,
   mark_seen and mark_missing leaves the rows it found as the first rows. *)
EventLogAppendOnly ==
    /\ IsPrefix(before.events, listing_events)
    /\ \A i \in 1..Len(turns) :
           /\ TurnEventsFrom(i) <= turns[i].events
           /\ turns[i].events <= Len(listing_events)
    /\ \A s \in Snapshots :
           LET payload == [signature |-> SignatureOf(s)] @@ s
               id == s.listing_id
               old == IF s.price = None THEN 0 ELSE s.price
           IN  /\ IsPrefix(listing_events, upsert_listing_current(Store, payload, now + 1).events)
               /\ IsPrefix(listing_events,
                           record_event(Store, id, "price_change", old, 950000, now + 1).events)
               /\ IsPrefix(listing_events, mark_seen(Store, id, now + 1).events)
               /\ IsPrefix(listing_events, mark_missing(Store, id, now + 1).events)

(* A run that found events in the log and appended a 'price_change' and a
   'missing' event to them *)
EventLogAppendOnlyWitness ==
    /\ before.events # << >>
    /\ \E i, j \in (Len(before.events) + 1)..Len(listing_events) :
           /\ listing_events[i].event_type = "price_change"
           /\ listing_events[j].event_type = "missing"
           /\ \E k \in 1..Len(before.events) :
                  /\ before.events[k].listing_id = listing_events[i].listing_id
                  /\ before.events[k].event_type = "price_change"

(* The presence rows of id the latest run appended *)
FreshPresence(id) ==
    {j \in (Len(before.presence) + 1)..Len(listing_presence) :
        listing_presence[j].listing_id = id}

(* C14: a run appends exactly one presence row for an id that stands in its
   batch, however often it stands there, and none for any other id. *)
PresenceOncePerRun ==
    runs > 0 =>
        \A id \in AllIds :
            Cardinality(FreshPresence(id)) = IF id \in SeenIds(batch) THEN 1 ELSE 0

(* The statements of the latest run on the listings_current row of id *)
MutationsOf(id) == SelectSeq(mutations, LAMBDA m : m.listing_id = id)

(* C15: the first statement on an id the store does not hold is the INSERT,
   with first_seen = last_seen = the run's now and is_active = 1; after that
   no upsert_listing_current, mark_seen or mark_missing changes first_seen,
   in the run or in any later one, the listing active or not. *)
FirstSeenFixed ==
    /\ \A id \in DOMAIN before.cur :
           /\ HasRow(listings_current, id)
           /\ listings_current[id].first_seen = before.cur[id].first_seen
           /\ \A i \in 1..Len(MutationsOf(id)) :
                  MutationsOf(id)[i].row.first_seen = before.cur[id].first_seen
    /\ \A id \in DOMAIN listings_current \ DOMAIN before.cur :
           /\ MutationsOf(id) # << >>
           /\ MutationsOf(id)[1].op = "upsert_listing_current"
           /\ MutationsOf(id)[1].row.last_seen = now
           /\ MutationsOf(id)[1].row.is_active = 1
           /\ \A i \in 1..Len(MutationsOf(id)) : MutationsOf(id)[i].row.first_seen = now
           /\ listings_current[id].first_seen = now
    /\ \A s \in Snapshots :
           LET payload == [signature |-> SignatureOf(s)] @@ s
               id == s.listing_id
           IN  HasRow(listings_current, id) =>
                   \A db \in {upsert_listing_current(Store, payload, now + 1),
                              mark_seen(Store, id, now + 1),
                              mark_missing(Store, id, now + 1)} :
                       db.cur[id].first_seen = listings_current[id].first_seen

(* A listing that went missing and is observed again by the latest run, with
   the first_seen it had before it went missing; and a listing the latest run
   inserted *)
FirstSeenFixedWitness ==
    /\ \E id \in SeenIds(batch) \cap DOMAIN before.cur :
           /\ before.cur[id].is_active = 0
           /\ listings_current[id].is_active = 1
           /\ listings_current[id].last_seen = now
           /\ \E m \in EventsOf(listing_events, id, "missing") :
                  listings_current[id].first_seen < listing_events[m].event_time
    /\ DOMAIN listings_current # DOMAIN before.cur

(* C16: a run on the empty batch returns the empty list, appends no presence
   row, turns every listing that was active when it started inactive with
   last_seen = now and exactly one 'missing' event, stamped now, and leaves
   every other row as it was and without a new event. *)
EmptyBatchMarksAllMissing ==
    (runs > 0 /\ batch = << >>) =>
        /\ enriched = << >>
        /\ listing_presence = before.presence
        /\ DOMAIN listings_current = DOMAIN before.cur
        /\ IsPrefix(before.events, listing_events)
        /\ Len(listing_events) = Len(before.events) + Cardinality(ActiveIds(before.cur))
        /\ \A id \in DOMAIN before.cur :
               IF before.cur[id].is_active = 1
               THEN /\ listings_current[id] = [before.cur[id] EXCEPT !.is_active = 0,
                                                                      !.last_seen = now]
                    /\ Cardinality(FreshMissing(id)) = 1
                    /\ \A i \in FreshMissing(id) : listing_events[i].event_time = now
               ELSE /\ listings_current[id] = before.cur[id]
                    /\ FreshMissing(id) = {}

(* A run on the empty batch that found two active listings and an inactive
   one *)
EmptyBatchMarksAllMissingWitness ==
    /\ runs > 0
    /\ batch = << >>
    /\ Cardinality(ActiveIds(before.cur)) = 2
    /\ DOMAIN before.cur # ActiveIds(before.cur)

----------------------------------------------------------------------------
(* Properties of the runs that abort *)

(* What the events of id say, their times left out *)
EventKinds(events, id) ==
    {<<events[i].event_type, events[i].old_value, events[i].new_value>> :
        i \in {j \in 1..Len(events) : events[j].listing_id = id}}

NamesEachIdOnce(listings) ==
    \A i, j \in 1..Len(listings) : listings[i].listing_id = listings[j].listing_id => i = j

(* C17, for batches that name each id once: after a run that aborted between
   two commits and a complete run on the same batch, every listing has the
   price, the signature and the active flag, and the 'price_change' and
   'missing' events, times left out, that the aborted run would have left
   had it run to its end. *)
RerunReconcilesAbortedRun ==
    (aborted.phase = "rerun" /\ NamesEachIdOnce(batch)) =>
        /\ DOMAIN listings_current = DOMAIN aborted.cur
        /\ \A id \in DOMAIN listings_current :
               /\ listings_current[id].price = aborted.cur[id].price
               /\ listings_current[id].signature = aborted.cur[id].signature
               /\ listings_current[id].is_active = aborted.cur[id].is_active
        /\ \A id \in AllIds :
               EventKinds(listing_events, id) = EventKinds(aborted.events, id)

----------------------------------------------------------------------------
(* Properties of compute_price_drop_30d *)

(* The stored price of id and the old and new values of its 'price_change'
   events of the 30 days up to t *)
WindowPrices(db, id, t) ==
    LET stored == IF db.cur[id].price = None THEN 0 ELSE db.cur[id].price
        inside == {i \in EventsOf(db.events, id, "price_change") :
                      db.events[i].event_time >= t - 30}
    IN  {stored} \cup {db.events[i].old_value : i \in inside}
                 \cup {db.events[i].new_value : i \in inside}

(* (maxPrice - currentPrice) / maxPrice over the window up to t, as a
   fraction, 0 for maxPrice <= 0 *)
Drawdown(db, id, t) ==
    LET stored == IF db.cur[id].price = None THEN 0 ELSE db.cur[id].price
        maxPrice == SetMax(WindowPrices(db, id, t))
    IN  IF maxPrice <= 0 THEN <<0, 1>> ELSE Frac(maxPrice - stored, maxPrice)

DropAsked == call.fn = "compute_price_drop_30d"

(* The latest run found id at a price and observed it at a lower one *)
PriceFell(i) ==
    LET id == batch[i].listing_id
    IN  /\ HasRow(TurnCurFrom(i), id)
        /\ TurnCurFrom(i)[id].price # None
        /\ batch[i].price # None
        /\ 0 < batch[i].price
        /\ batch[i].price < TurnCurFrom(i)[id].price

(* The latest run observed id above its stored price and above every value
   of its 'price_change' events of the 30 days before *)
PriceRoseAboveAll(i) ==
    LET id == batch[i].listing_id
        db == [cur |-> TurnCurFrom(i), events |-> SubSeq(listing_events, 1, TurnEventsFrom(i))]
    IN  /\ HasRow(TurnCurFrom(i), id)
        /\ batch[i].price # None
        /\ \A p \in WindowPrices(db, id, now) : p < batch[i].price

(* C18 as the specification words it: asked with the clock's time, the ratio
   is (maxPrice - currentPrice) / maxPrice exactly; the record of a run in
   which the price fell from P to Q has a ratio of at least (P - Q) / P; the
   record of a run in which it rose above every price of the window has 0. *)
PriceDropIsDrawdown ==
    /\ (DropAsked /\ call.args.now = call.args.wall) =>
           Frac(call.result, 10000) = Drawdown(Store, call.args.listing_id, call.args.now)
    /\ \A i \in 1..Len(enriched) :
           /\ PriceFell(i) =>
                  LET P == TurnCurFrom(i)[batch[i].listing_id].price
                  IN  FLe(Frac(P - batch[i].price, P),
                          Frac(enriched[i].price_drop_30d_ratio, 10000))
           /\ PriceRoseAboveAll(i) => enriched[i].price_drop_30d_ratio = 0

(* C18: asked with the clock's time, the ratio is (maxPrice - currentPrice)
   / maxPrice rounded to 4 decimals; the record of a run in which the price
   fell from P to Q has a ratio of at least (P - Q) / P rounded to 4
   decimals; the record of a run in which it rose above every price of the
   window has 0. *)
PriceDropIsRoundedDrawdown ==
    /\ (DropAsked /\ call.args.now = call.args.wall) =>
           call.result = RoundScaled(Drawdown(Store, call.args.listing_id, call.args.now), 10000)
    /\ \A i \in 1..Len(enriched) :
           /\ PriceFell(i) =>
                  LET P == TurnCurFrom(i)[batch[i].listing_id].price
                  IN  enriched[i].price_drop_30d_ratio
                          >= RoundScaled(Frac(P - batch[i].price, P), 10000)
           /\ PriceRoseAboveAll(i) => enriched[i].price_drop_30d_ratio = 0

(* The ratio 0.4 asked for after the price fell from 1000000 to 900000 and,
   within 30 days, to 600000, a fall by a third that run recorded as 0.4 *)
PriceDropIsRoundedDrawdownWitness ==
    /\ DropAsked
    /\ call.args.now = call.args.wall
    /\ call.result = 4000
    /\ PriceFell(1)
    /\ before.cur["a"].price = 900000
    /\ batch[1].price = 600000
    /\ enriched[1].price_drop_30d_ratio = 4000

(* C19: compute_price_drop_30d(id, now) is the rounded ratio over the stored
   price and the 'price_change' events of the 30 days up to the now it is
   handed, whatever the clock says when it is called. *)
WindowFollowsSuppliedNow ==
    DropAsked =>
        call.result = RoundScaled(Drawdown(Store, call.args.listing_id, call.args.now), 10000)

----------------------------------------------------------------------------
(* Properties of a run as a function of what it is handed *)

(* The store the latest run started from *)
BeforeStore == [cur |-> before.cur, events |-> before.events,
                presence |-> before.presence, log |-> << >>]

EventsAbout(events, id) == SelectSeq(events, LAMBDA ev : ev.listing_id = id)

(* C20: what a run returns and leaves is fixed by the store it starts from,
   its batch and its now: in every turn detect_relist has one value it can
   return, the one in the record, and whichever way the walk over
   missing_ids goes the rows and each listing's events are the same. *)
EnrichDeterministic ==
    runs > 0 =>
        /\ \A i \in 1..Len(batch) :
               detect_relist(TurnStore(i), batch[i].listing_id, now) = {enriched[i].is_relist}
        /\ LET looped == enrich_listings(BeforeStore, batch, DEFAULT_SETTINGS, now, now)
           IN  \A order \in Orders(MissingIds(BeforeStore, batch)) :
                   LET db == missing_loop(looped.db, order, 1, now)
                   IN  /\ db.cur = listings_current
                       /\ \A id \in AllIds :
                              EventsAbout(db.events, id) = EventsAbout(listing_events, id)

----------------------------------------------------------------------------
(* Properties of signature_for *)

(* Ten times the number x stands for; None stands for no number *)
Tenths(x) == 10 * x.n + x.t

NumericallyEqual(x, y) ==
    IF x.kind = "none" \/ y.kind = "none" THEN x.kind = y.kind
    ELSE Tenths(x) = Tenths(y)

(* Lower-cased, runs of whitespace collapsed, none at either end *)
Normalized(text) == JoinSplit(Lower(text), 1, << >>)

SamePhysicalAttributes(s, r) ==
    /\ Normalized(s.address) = Normalized(r.address)
    /\ Normalized(s.city) = Normalized(r.city)
    /\ NumericallyEqual(s.beds, r.beds)
    /\ NumericallyEqual(s.baths, r.baths)
    /\ NumericallyEqual(s.sqft, r.sqft)

(* C21: two snapshots whose address and city agree once lower-cased and
   whitespace-collapsed and whose beds, baths and sqft are numerically equal
   get one signature, and a snapshot gets the same signature each time. *)
SignatureFollowsAttributes ==
    call.fn = "signature_for" =>
        /\ call.result.first = signature_for(call.args.first)
        /\ SamePhysicalAttributes(call.args.first, call.args.second)
               => call.result.first = call.result.second

----------------------------------------------------------------------------
(* Properties of fetch_realtor_public_poc *)

Requested(result) == {result.requests[i] : i \in 1..Len(result.requests)}

ListedIds(result) == {result.listings[i].listing_id : i \in 1..Len(result.listings)}

PageIds(city) == {Html(city)[i].listingid : i \in 1..Len(Html(city))}

(* C22: a page is requested only if robots.txt was read and allows its url;
   if robots.txt could not be read or disallows the site root the call
   returns no listing and requests nothing; a search url robots.txt disallows
   is skipped, neither requested nor read from the cache. *)
FetchObeysRobots ==
    call.fn = "fetch_realtor_public_poc" =>
        LET robots == call.args.site.robots
            result == call.result
        IN  /\ \A url \in Requested(result) :
                   /\ robots.read
                   /\ sample_path \in robots.allowed
                   /\ url \in robots.allowed
            /\ (~robots.read \/ sample_path \notin robots.allowed)
                   => result.listings = << >> /\ result.requests = << >>
            /\ \A city \in TargetCities :
                   SearchUrl(city) \notin robots.allowed
                       => /\ SearchUrl(city) \notin Requested(result)
                          /\ SearchUrl(city) \notin result.cache \ call.args.site.cache
                          /\ ListedIds(result) \cap PageIds(city) = {}

(* One of two search urls is disallowed and skipped although cached, the
   other is requested and answers *)
FetchObeysRobotsWitness ==
    /\ call.fn = "fetch_realtor_public_poc"
    /\ call.args.site.robots.read
    /\ call.args.site.robots.allowed = {sample_path, SearchUrl("Burnaby")}
    /\ call.args.site.cache = {SearchUrl("Vancouver")}
    /\ call.args.settings.target_cities = <<"Vancouver", "Burnaby">>
    /\ call.result.requests = <<SearchUrl("Burnaby")>>
    /\ ListedIds(call.result) = PageIds("Burnaby")

(* robots.txt could not be read: nothing is requested, nothing returned *)
FetchUnreadRobotsWitness ==
    /\ call.fn = "fetch_realtor_public_poc"
    /\ ~call.args.site.robots.read
    /\ call.args.settings.target_cities = <<"Vancouver", "Burnaby">>
    /\ call.args.settings.limits.max_search_pages = 2
    /\ call.result.requests = << >>

----------------------------------------------------------------------------
(* Properties of the active flag *)

(* C23: after every completed run the ids with is_active = 1 are exactly the
   ids of the run's batch: an observed id is active, one that was inactive
   before included, and every other stored id is inactive. *)
ActiveIsObserved ==
    runs > 0 =>
        /\ ActiveIds(listings_current) = SeenIds(batch)
        /\ \A id \in DOMAIN listings_current \ SeenIds(batch) :
               listings_current[id].is_active = 0

(* The run observed an id that was inactive and dropped one that was active *)
ActiveIsObservedWitness ==
    /\ runs > 0
    /\ \E id \in SeenIds(batch) :
           HasRow(before.cur, id) /\ before.cur[id].is_active = 0
    /\ \E id \in DOMAIN before.cur \ SeenIds(batch) : before.cur[id].is_active = 1
    /\ ActiveIds(listings_current) = SeenIds(batch)

(* The active flag of id's row before the latest run and after each
   statement the run made on it *)
RunFlags(id) ==
    LET made == MutationsOf(id)
        flags == [i \in 1..Len(made) |-> made[i].row.is_active]
    IN  IF HasRow(before.cur, id) THEN <<before.cur[id].is_active>> \o flags ELSE flags

(* How often the latest run turned id's row from active to inactive *)
Deactivations(id) ==
    Cardinality({i \in 2..Len(RunFlags(id)) :
        RunFlags(id)[i - 1] = 1 /\ RunFlags(id)[i] = 0})

(* C24: between runs every inactive listing has a 'missing' event and its
   last_seen is the time of the most recent one; and every listing has as
   many 'missing' events as its row went from active to inactive, run by
   run: each run appends as many for it as it turned the row inactive. *)
InactiveSinceLastMissing ==
    /\ \A id \in DOMAIN listings_current :
           listings_current[id].is_active = 0 =>
               /\ MissingTimes(Store, id) # {}
               /\ listings_current[id].last_seen = SetMax(MissingTimes(Store, id))
    /\ \A id \in AllIds :
           Cardinality(FreshMissing(id)) = Deactivations(id)

(* A listing went missing, came back and went missing again later: two
   events, last_seen at the second *)
InactiveSinceLastMissingWitness ==
    \E id \in DOMAIN listings_current :
        /\ listings_current[id].is_active = 0
        /\ Cardinality(MissingTimes(Store, id)) = 2
        /\ Cardinality(EventsOf(listing_events, id, "missing")) = 2
        /\ Deactivations(id) = 1
        /\ listings_current[id].last_seen = SetMax(MissingTimes(Store, id))
----------------------------------------------------------------------------
(* Properties of a listing that takes another one's place *)

SetMin(S) == CHOOSE m \in S : \A x \in S : m <= x

TurnsOf(id) == {i \in 1..Len(batch) : batch[i].listing_id = id}

(* The latest run is the one in which a first disappeared and b, of the same
   signature and shared with nobody else, first appeared *)
TakesPlaceNow(a, b) ==
    /\ a # b
    /\ b \in SeenIds(batch) /\ ~HasRow(before.cur, b)
    /\ a \in ActiveIds(before.cur) \ SeenIds(batch)
    /\ MissingTimes(BeforeStore, a) = {}
    /\ Twins(listings_current, b) = {a}

(* Some earlier run was that one, and the latest run is the first since then
   that observes b *)
TookPlaceBefore(a, b) ==
    /\ a # b
    /\ b \in SeenIds(batch) /\ HasRow(before.cur, b)
    /\ HasRow(before.cur, a)
    /\ MissingTimes(BeforeStore, a) # {}
    /\ before.cur[b].first_seen = SetMin(MissingTimes(BeforeStore, a))
    /\ \A i \in 1..Len(before.presence) :
           before.presence[i].listing_id = b
               => before.presence[i].seen_time = before.cur[b].first_seen
    /\ Twins(listings_current, b) = {a}

(* C25 as the specification words it: in the run where a first disappears
   and b with the same signature first appears, b's is_relist is false, and
   in the next run that observes b it is true. *)
RelistInNextRun ==
    \A a, b \in AllIds :
        /\ TakesPlaceNow(a, b) => \A i \in TurnsOf(b) : ~enriched[i].is_relist
        /\ TookPlaceBefore(a, b) => \A i \in TurnsOf(b) : enriched[i].is_relist

(* C25: in the run where a first disappears and b with the same signature
   first appears, b's is_relist is false; in the next run that observes b it
   is true if a has not been observed again by b's turn, and otherwise true
   only if b itself has been missing for 7 days. *)
RelistInNextRunUnlessBack ==
    \A a, b \in AllIds :
        /\ TakesPlaceNow(a, b) => \A i \in TurnsOf(b) : ~enriched[i].is_relist
        /\ TookPlaceBefore(a, b) =>
               \A i \in TurnsOf(b) :
                   enriched[i].is_relist =
                       \/ turns[i].cur[a].is_active = 0
                       \/ MissingSevenDays(TurnStore(i), b, now)

(* b took a's place two runs ago, unflagged; now b is observed again and
   flagged *)
RelistInNextRunUnlessBackWitness ==
    \E a, b \in AllIds :
        /\ TookPlaceBefore(a, b)
        /\ \E i \in 1..Len(before.batch) :
               before.batch[i].listing_id = b /\ ~before.enriched[i].is_relist
        /\ a \notin SeenIds(batch)
        /\ \A i \in TurnsOf(b) : enriched[i].is_relist

(* a came back in the run that observes b again, ahead of b *)
RelistBackWitness ==
    \E a, b \in AllIds :
        /\ TookPlaceBefore(a, b)
        /\ \E i \in TurnsOf(b) : turns[i].cur[a].is_active = 1 /\ ~enriched[i].is_relist

====
